---- MODULE Spec2Model ----
(***************************************************************************)
(* Model of the MPPT terminal pipeline of v7_terminal:                     *)
(*   - the reader worker and its frame splitter (mppt/gui.py),             *)
(*   - the connection life cycle around it (mppt/gui.py, serial_auto.py),  *)
(*   - the persistence gate MPPTLogger.save_block (mppt/logger.py).        *)
(* Text is a sequence of one-character strings; "ESC" stands for \x1b.     *)
(***************************************************************************)
EXTENDS Integers, Sequences, FiniteSets, TLC

\* ------------------------------------------------------------------ bounds
\* Total number of decoded characters the serial link delivers in a run
\* of Spec (reader with the connection life cycle).
MaxRecv == 5
\* Total number of decoded characters of a stream in SpecSplit (the frame
\* splitter alone): two whole markers fit.
MaxStream == 8
\* Largest number of reader threads alive at once.
MaxReaders == 2
\* Largest number of queued _on_port_lost callbacks.
MaxLostQ == 1
\* Number of save_block calls in a run of SpecLog.
MaxCalls == 3
\* Largest number of pieces a frame of SpecMask is made of: two UIDs with
\* their SGR resets and a line break between them fit.
MaxSegs == 5
\* Number of frames the reader handles in a run of SpecFrame and of
\* SpecSession.
MaxFrames == 2
\* Number of times the "Save block" button is pressed in a run of SpecFrame.
MaxManual == 1
\* Columns of the character grid followed by the canvas model.
GridCols == 2

\* Lines of a frame given to _parse_frame.
MaxLines == 2

\* Threads of the "+" button that are followed at a time.
MaxPlus == 2

\* ------------------------------------------------------------------ text
\* The characters the device sends. Every one occurs in the marker, and
\* every one is ordinary text wherever it is not part of a whole marker.
Chars == {"ESC", "[", "2", "J"}

\* MPPTTerminalPanel.ESC_CLEAR = "\x1b[2J"
ESC_CLEAR == <<"ESC", "[", "2", "J">>

\* All texts of length lo..hi over Chars.
Texts(lo, hi) == UNION {[1..n -> Chars] : n \in lo..hi}

\* str.find: lowest 0-based index at which pat occurs in buf, or -1.
Find(buf, pat) ==
    LET hits == {i \in 0..(Len(buf) - Len(pat)) :
                    SubSeq(buf, i + 1, i + Len(pat)) = pat}
    IN  IF hits = {} THEN -1
        ELSE CHOOSE i \in hits : \A j \in hits : i <= j

\* buf[n:]
Drop(buf, n) == SubSeq(buf, n + 1, Len(buf))

\* `if self._frame_buf:` -- the buffered frame is handed on when non-empty.
FrameReady(fb) == fb # <<>>

\* The frame buffer a new frame starts with: `self._frame_buf = esc`.
NewFrameSeed == ESC_CLEAR

\* The `while True:` loop of _reader_loop over one decoded chunk: fb is
\* _frame_buf, buf the rest of the chunk, out the frames handed to
\* _process_full_frame so far.
RECURSIVE SplitLoop(_, _, _)
SplitLoop(fb, buf, out) ==
    LET idx == Find(buf, ESC_CLEAR)
    IN  IF idx = -1
        THEN [fb |-> fb \o buf, out |-> out]
        ELSE LET prefix == SubSeq(buf, 1, idx)
                 fb1    == IF prefix # <<>> THEN fb \o prefix ELSE fb
                 out1   == IF FrameReady(fb1) THEN Append(out, fb1) ELSE out
             IN  SplitLoop(NewFrameSeed, Drop(buf, idx + Len(ESC_CLEAR)), out1)

\* Frames emitted when the whole text s arrives as one chunk on an empty
\* _frame_buf.
OneShot(s) == SplitLoop(<<>>, s, <<>>).out

\* --------------------------------------------------------------- UID mask
\* "" stands for None and for the empty string where the program holds a
\* fingerprint.
NoId == ""

\* "\x1b[0m", the SGR reset the UID pattern starts with.
SGR_RESET == <<"ESC", "[", "0", "m">>

\* \s of the UID pattern.
IsSpace(c) == c \in {" ", "\t", "\n", "\r"}

\* [^- \r\n] of the UID pattern.
IsGrp(c) == c \notin {"-", " ", "\r", "\n"}

\* 0-based end of the longest run of characters of class Cls that starts at
\* the 0-based offset p (p itself when the run is empty).
RunEnd(text, p, Cls(_)) ==
    CHOOSE q \in p..Len(text) :
        /\ \A k \in (p + 1)..q : Cls(text[k])
        /\ q = Len(text) \/ ~Cls(text[q + 1])

\* `[^- \r\n]+-` at offset p: the offset after the dash, or -1. A group
\* cannot hold a dash, so it ends exactly where its run of characters ends.
GroupThenDash(text, p) ==
    IF p = -1 THEN -1
    ELSE LET q == RunEnd(text, p, IsGrp)
         IN  IF q > p /\ q < Len(text) /\ text[q + 1] = "-" THEN q + 1 ELSE -1

\* The four groups of the UID pattern at offset p: the offset after the
\* fourth (greedy) group, or -1.
TryGroups(text, p) ==
    LET p4 == GroupThenDash(text, GroupThenDash(text, GroupThenDash(text, p)))
    IN  IF p4 = -1 THEN -1
        ELSE LET q == RunEnd(text, p4, IsGrp)
             IN  IF q > p4 THEN q ELSE -1

NoMatch == [start |-> -1, gstart |-> -1, end |-> -1]

\* The match that starts at offset i, given the offsets ks at which the
\* four groups match after the white space: the greedy \s* keeps the
\* largest.
MatchFrom(text, i, ks) ==
    IF ks = {} THEN NoMatch
    ELSE LET k == CHOOSE x \in ks : \A y \in ks : y <= x
         IN  [start |-> i, gstart |-> k, end |-> TryGroups(text, k)]

\* UID_REGEX matched at offset i: span() is start..end, group(1) is
\* gstart..end. \s* is greedy and gives characters back until the groups
\* match.
UidMatchAt(text, i) ==
    IF i + Len(SGR_RESET) <= Len(text)
       /\ SubSeq(text, i + 1, i + Len(SGR_RESET)) = SGR_RESET
    THEN MatchFrom(text, i,
                   {k \in (i + Len(SGR_RESET))..RunEnd(text, i + Len(SGR_RESET), IsSpace) :
                       TryGroups(text, k) # -1})
    ELSE NoMatch

\* The match at the least of the offsets hits, or NoMatch.
LeftmostMatch(text, hits) ==
    IF hits = {} THEN NoMatch
    ELSE UidMatchAt(text, CHOOSE i \in hits : \A j \in hits : i <= j)

\* UID_REGEX.search: the leftmost match, or NoMatch.
UidSearch(text) ==
    LeftmostMatch(text, {i \in 0..(Len(text) - 1) : UidMatchAt(text, i) # NoMatch})

\* ord() of the characters a UID is made of here.
Ascii(c) ==
    CASE c = "ESC" -> 27 [] c = "\t" -> 9  [] c = "[" -> 91 [] c = "0" -> 48
      [] c = "2" -> 50   [] c = "3" -> 51  [] c = "7" -> 55 [] c = "m" -> 109
      [] c = "c" -> 99   [] c = "J" -> 74  [] c = ":" -> 58 [] c = "I" -> 73
      [] c = "D" -> 68   [] c = "P" -> 80  [] c = "A" -> 65 [] c = "S" -> 83
      [] c = "E" -> 69   [] c = "p" -> 112 [] c = "a" -> 97 [] c = "s" -> 115
      [] c = "e" -> 101  [] c = "d" -> 100 [] OTHER -> 63

\* zlib.crc32(uid_bytes) & 0xFFFF: a 16-bit checksum of the UID's
\* characters. The width and the dependence on every character and its
\* position are kept; a multiplicative sum stands for the CRC polynomial.
RECURSIVE Crc16(_)
Crc16(uid) ==
    IF uid = <<>> THEN 0
    ELSE (Crc16(SubSeq(uid, 1, Len(uid) - 1)) * 31 + Ascii(uid[Len(uid)])) % 65536

HexDigit(n) ==
    <<"0", "1", "2", "3", "4", "5", "6", "7", "8", "9",
      "A", "B", "C", "D", "E", "F">>[n + 1]

\* f"{crc:04X}" as the characters of a text.
Hex4Chars(n) ==
    <<HexDigit(n \div 4096), HexDigit((n \div 256) % 16),
      HexDigit((n \div 16) % 16), HexDigit(n % 16)>>

\* f"{crc:04X}" as the fingerprint value.
Hex4(n) ==
    HexDigit(n \div 4096) \o HexDigit((n \div 256) % 16)
        \o HexDigit((n \div 16) % 16) \o HexDigit(n % 16)

\* str.ljust: pads with spaces on the right up to width n, never cuts.
Ljust(s, n) == s \o [k \in 1..(n - Len(s)) |-> " "]

\* Mutant: the replacement is not padded.
MaskText_NoPad(short_chars, width) == <<"I", "D", ":">> \o short_chars

\* f"ID:{short}".ljust(end - start)
MaskText(short_chars, width) == Ljust(<<"I", "D", ":">> \o short_chars, width)

\* Mutant: a frame without UID keeps the fingerprint of the frame before.
ShortIdWithoutUid_Keep(old) == old

\* _process_full_frame, `if not m: self.device_short_id = None`.
ShortIdWithoutUid(old) == NoId

\* _process_full_frame, lines 393-402: the match m of the frame is
\* replaced by the fingerprint made of the checksum crc.
MaskedAs(frame_text, m, crc) ==
    [short |-> Hex4(crc),
     text  |-> SubSeq(frame_text, 1, m.start)
               \o MaskText(Hex4Chars(crc), m.end - m.start)
               \o Drop(frame_text, m.end)]

\* _process_full_frame, lines 386-402, m being what UID_REGEX.search
\* returned.
MaskWith(frame_text, old, m) ==
    IF m = NoMatch
    THEN [short |-> ShortIdWithoutUid(old), text |-> frame_text]
    ELSE MaskedAs(frame_text, m, Crc16(SubSeq(frame_text, m.gstart + 1, m.end)))

\* _process_full_frame, lines 385-402: the fingerprint of the frame (old is
\* device_short_id before) and the text that goes on to the terminal.
MaskFrame(frame_text, old) == MaskWith(frame_text, old, UidSearch(frame_text))

\* --------------------------------------------------------------- terminal
\* A parameter character of a control sequence ESC [ ... .
IsParam(c) == c \in {"0", "1", "2", "3", "4", "5", "6", "7", "8", "9", ";"}

\* Select Graphic Rendition with the parameter text param: 0, 39 or no
\* parameter gives the default foreground, 31 and 32 select red and green;
\* the other renditions (and parameter lists) leave the foreground alone
\* here.
SgrColor(param, fg) ==
    CASE param \in {<<>>, <<"0">>, <<"3", "9">>} -> "default"
      [] param = <<"3", "1">> -> "red"
      [] param = <<"3", "2">> -> "green"
      [] OTHER -> fg

\* pyte.Screen(cols, rows) at construction: nothing shown, default colour.
BlankScreen == [fg |-> "default", cells |-> <<>>]

\* PyteTerminal.feed -> pyte.Stream.feed, reduced to what the panel, the
\* canvas and the logger read back: cells holds the characters printed
\* since the display was last erased, each with the foreground colour it
\* was printed in, rows separated by "\n" (cursor addressing and the
\* column wrap are left out); fg is the colour now selected. ESC [ 2 J
\* erases the display, ESC [ ... m selects the colour, every other control
\* sequence (ESC [ params final, ESC x) prints nothing, an unfinished one
\* swallows the rest of the text. FeedOne is the step of the stream for
\* the first character or control sequence of a non-empty text: the
\* screen after it and the text still to come.
FeedOne(scr, text) ==
    IF text[1] # "ESC"
    THEN [scr  |-> [scr EXCEPT !.cells = Append(@, [data |-> text[1], fg |-> scr.fg])],
          rest |-> Drop(text, 1)]
    ELSE IF Len(text) = 1 THEN [scr |-> scr, rest |-> <<>>]
    ELSE IF text[2] # "[" THEN [scr |-> scr, rest |-> Drop(text, 2)]
    ELSE LET q == RunEnd(text, 2, IsParam)
         IN  IF q = Len(text) THEN [scr |-> scr, rest |-> <<>>]
             ELSE IF text[q + 1] = "J" /\ SubSeq(text, 3, q) = <<"2">>
                  THEN [scr |-> [scr EXCEPT !.cells = <<>>], rest |-> Drop(text, q + 1)]
             ELSE IF text[q + 1] = "m"
                  THEN [scr  |-> [scr EXCEPT !.fg = SgrColor(SubSeq(text, 3, q), @)],
                        rest |-> Drop(text, q + 1)]
                  ELSE [scr |-> scr, rest |-> Drop(text, q + 1)]

\* pyte.Stream.feed: the text is consumed from left to right.
RECURSIVE FeedRest(_)
FeedRest(st) ==
    IF st.rest = <<>> THEN st.scr ELSE FeedRest(FeedOne(st.scr, st.rest))

\* PyteTerminal.feed(text) on the screen scr.
FeedScreen(scr, text) == FeedRest([scr |-> scr, rest |-> text])

\* screen.display: the characters on the screen, without the colours.
ScreenText(scr) == [i \in DOMAIN scr.cells |-> scr.cells[i].data]

\* str.upper on the letters that occur here.
UpperChar(c) ==
    CASE c = "p" -> "P" [] c = "a" -> "A" [] c = "s" -> "S" [] c = "e" -> "E"
      [] c = "d" -> "D" [] c = "c" -> "C" [] c = "m" -> "M" [] c = "b" -> "B"
      [] c = "f" -> "F" [] OTHER -> c

Upper(text) == [i \in DOMAIN text |-> UpperChar(text[i])]

PASSED == <<"P", "A", "S", "S", "E", "D">>

\* `"PASSED" in ln.upper()` for some line ln of the screen.
HasPassed(scr) == Find(Upper(scr), PASSED) # -1

\* [0-9A-Fa-f]
IsHex(c) ==
    c \in {"0", "1", "2", "3", "4", "5", "6", "7", "8", "9",
           "A", "B", "C", "D", "E", "F", "a", "b", "c", "d", "e", "f"}

\* _parse_frame: values[0], the four hex digits of the first ID:XXXX on the
\* screen, top to bottom, in upper case; "" when there is none.
IdOnScreen(scr) ==
    LET hits == {i \in 0..(Len(scr) - 7) :
                    /\ SubSeq(scr, i + 1, i + 3) = <<"I", "D", ":">>
                    /\ \A k \in (i + 4)..(i + 7) : IsHex(scr[k])}
    IN  IF hits = {} THEN NoId
        ELSE LET i == CHOOSE x \in hits : \A y \in hits : x <= y
             IN  UpperChar(scr[i + 4]) \o UpperChar(scr[i + 5])
                     \o UpperChar(scr[i + 6]) \o UpperChar(scr[i + 7])

\* PyteTerminal.get_lines() as save_block looks at it: screen.display
\* always has its 24 rows, so the list is never empty.
ScreenLines(scr) ==
    [empty |-> FALSE, passed |-> HasPassed(ScreenText(scr)),
     id_line |-> IdOnScreen(ScreenText(scr))]

\* _process_full_frame run from start to end on frame f, for a frame that
\* does not show PASSED: st is device_short_id, the screen, the frame and
\* the text last fed, and the number of frames handled.
AfterFrame(st, f) ==
    LET mk == MaskFrame(f, st.id)
    IN  [id |-> mk.short, screen |-> FeedScreen(st.screen, mk.text),
         frame |-> f, fed |-> mk.text, n |-> st.n + 1]

RECURSIVE AfterFrames(_, _)
AfterFrames(st, frames) ==
    IF frames = <<>> THEN st
    ELSE AfterFrames(AfterFrame(st, frames[1]), Drop(frames, 1))

\* ----------------------------------------------------------------- canvas
\* The columns of the character grid that are followed. The panel builds
\* the pyte screen and the canvas with the same size (cols=64, rows=18);
\* here the grid is the first GridCols columns of the first row.
Cells == 1..GridCols

\* PYTE_FG_TO_HEX.get("default", "#e8eaed")
DefaultColor == "#e8eaed"

\* PYTE_FG_TO_HEX.get(fg_name, default_color)
FgToHex(fg_name) ==
    CASE fg_name = "default" -> "#e8eaed"
      [] fg_name = "red" -> "#ff5555"
      [] fg_name = "green" -> "#50fa7b"
      [] OTHER -> DefaultColor

\* Number of cells in the first row of the screen.
RowEnd(cells) ==
    LET nl == {i \in DOMAIN cells : cells[i].data = "\n"}
    IN  IF nl = {} THEN Len(cells)
        ELSE (CHOOSE i \in nl : \A k \in nl : i <= k) - 1

\* buf.get(0, {}).get(c): the cell of column c, absent when nothing was
\* printed there.
GridCell(scr, c) ==
    IF c <= RowEnd(scr.cells)
    THEN [present |-> TRUE, data |-> scr.cells[c].data, fg |-> scr.cells[c].fg]
    ELSE [present |-> FALSE, data |-> "", fg |-> ""]

\* The cells render_diff reads from the screen.
Grid(scr) == [c \in Cells |-> GridCell(scr, c)]

\* render_diff, lines 92-101: the character to show for a cell.
ShownChar(cell) ==
    LET ch == IF ~cell.present \/ cell.data = "" THEN " " ELSE cell.data
    IN  IF ch = "NUL" THEN " " ELSE ch

\* render_diff, lines 92-103: the colour to show for a cell.
ShownColor(cell) ==
    FgToHex(IF ~cell.present \/ cell.fg = "" THEN "default" ELSE cell.fg)

\* Mutant: the colour is not compared.
Differs_CharOnly(ch, fg_hex, last_ch, last_col) == ch # last_ch

\* render_diff, lines 105-108.
Differs(ch, fg_hex, last_ch, last_col) == ch # last_ch \/ fg_hex # last_col

\* render_diff, lines 90-113: the body of the loop for column c. st holds
\* last_chars, last_colors, the canvas items and the cells on which
\* itemconfig has been called in this pass.
RenderOne(scr, c, st) ==
    LET cell == GridCell(scr, c)
        ch == ShownChar(cell)
        fg_hex == ShownColor(cell)
    IN  IF Differs(ch, fg_hex, st.chars[c], st.colors[c])
        THEN [chars |-> [st.chars EXCEPT ![c] = ch],
              colors |-> [st.colors EXCEPT ![c] = fg_hex],
              items |-> [st.items EXCEPT ![c] = [text |-> ch, fill |-> fg_hex]],
              updates |-> st.updates \cup {c}]
        ELSE st

\* render_diff: the loop over the columns from c on.
RECURSIVE RenderLoop(_, _, _)
RenderLoop(scr, c, st) ==
    IF c > GridCols THEN st
    ELSE RenderLoop(scr, c + 1, RenderOne(scr, c, st))

\* CanvasTerminal.render_diff
RenderDiff(scr, chars, colors, items) ==
    RenderLoop(scr, 1, [chars |-> chars, colors |-> colors, items |-> items,
                        updates |-> {}])

\* MPPTLogger._row_hex_color for a row of the colour matrix: the first
\* entry that is not empty, "" (None) when there is none.
RowHexColor(row) ==
    LET set == {c \in DOMAIN row : row[c] # ""}
    IN  IF set = {} THEN "" ELSE row[CHOOSE c \in set : \A k \in set : c <= k]

\* _excel_color_from_hex: green, red, and black for everything else.
ExcelColorFromHex(term_hex) ==
    CASE term_hex \in {"#50fa7b", "#69ff94"} -> "00AA00"
      [] term_hex \in {"#ff5555", "#ff6e6e"} -> "FF0000"
      [] OTHER -> "000000"

\* ----------------------------------------------------------- record parser
\* The rules of _parse_frame, lines 240-252: the label and the mode of the
\* fields 1..11.
Rules ==
    <<[label |-> <<"U", "A", "R", "T">>, mode |-> "bracket"],
      [label |-> <<"V", "o", "l", "t", "a", "g", "e">>, mode |-> "bracket"],
      [label |-> <<"U", "_", "b", "a", "t">>, mode |-> "number"],
      [label |-> <<"U", "_", "s", "r", "c">>, mode |-> "number"],
      [label |-> <<"C", "u", "r", "r", "e", "n", "t">>, mode |-> "bracket"],
      [label |-> <<"I", "_", "c", "r", "g">>, mode |-> "number"],
      [label |-> <<"I", "_", "c", "h", "1">>, mode |-> "number"],
      [label |-> <<"I", "_", "c", "h", "2">>, mode |-> "number"],
      [label |-> <<"C", "h", "a", "r", "g", "e", "r">>, mode |-> "bracket"],
      [label |-> <<"M", "_", "s", "e", "n", "s">>, mode |-> "bracket"],
      [label |-> <<"L", "_", "s", "e", "n", "s">>, mode |-> "bracket"]>>

\* The columns of a record: 0 is the ID, 1..11 the labelled fields.
Fields == 0..11

\* str.strip()
Strip(text) ==
    LET keep == {i \in DOMAIN text : ~IsSpace(text[i])}
    IN  IF keep = {} THEN <<>>
        ELSE SubSeq(text, CHOOSE i \in keep : \A k \in keep : i <= k,
                          CHOOSE i \in keep : \A k \in keep : k <= i)

\* No match of a pattern.
NoValue == [found |-> FALSE, val |-> <<>>]

\* re.search(r"\[([^\]]*)\]", ln): the text between the first "[" that
\* has a "]" after it and the first "]" after it, stripped.
BracketValue(ln) ==
    LET opens == {i \in DOMAIN ln :
                     ln[i] = "[" /\ \E j \in (i + 1)..Len(ln) : ln[j] = "]"}
    IN  IF opens = {} THEN NoValue
        ELSE LET i == CHOOSE x \in opens : \A y \in opens : x <= y
                 j == CHOOSE x \in (i + 1)..Len(ln) :
                         ln[x] = "]" /\ \A y \in (i + 1)..(x - 1) : ln[y] # "]"
             IN  [found |-> TRUE, val |-> Strip(SubSeq(ln, i + 1, j - 1))]

\* \d
IsDigit(c) == c \in {"0", "1", "2", "3", "4", "5", "6", "7", "8", "9"}

\* label\s+(-?\d+) matched with the label at the 0-based offset p: the
\* 0-based offsets at which the number starts and ends, <<-1, -1>> when
\* there is no match.
NumberAt(ln, label, p) ==
    IF p + Len(label) > Len(ln) \/ SubSeq(ln, p + 1, p + Len(label)) # label
    THEN <<-1, -1>>
    ELSE LET w == RunEnd(ln, p + Len(label), IsSpace)
             d == IF w < Len(ln) /\ ln[w + 1] = "-" THEN w + 1 ELSE w
             e == RunEnd(ln, d, IsDigit)
         IN  IF w > p + Len(label) /\ e > d THEN <<w, e>> ELSE <<-1, -1>>

\* re.search(rf"{re.escape(label)}\s+(-?\d+)", ln): group 1 of the
\* leftmost match.
NumberValue(ln, label) ==
    LET hits == {p \in 0..(Len(ln) - 1) : NumberAt(ln, label, p) # <<-1, -1>>}
    IN  IF hits = {} THEN NoValue
        ELSE LET m == NumberAt(ln, label, CHOOSE p \in hits : \A q \in hits : p <= q)
             IN  [found |-> TRUE, val |-> Strip(SubSeq(ln, m[1] + 1, m[2]))]

\* _parse_frame, lines 265-273: what the pattern of field k finds in ln.
FieldValue(k, ln) ==
    IF Rules[k].mode = "bracket" THEN BracketValue(ln)
    ELSE NumberValue(ln, Rules[k].label)

\* _row_hex_color(color_matrix, row_idx) turned into the colour of the
\* record by _excel_color_from_hex; the rows are counted from 1 here.
RowColour(matrix, i) ==
    ExcelColorFromHex(IF i \in DOMAIN matrix THEN RowHexColor(matrix[i]) ELSE "")

\* _parse_frame, lines 258-273: the rules applied to the line ln, which is
\* not blank; colour is the colour of its row.
ApplyRules(ln, colour, acc) ==
    [values |-> [k \in Fields |->
                    IF k # 0 /\ Find(ln, Rules[k].label) # -1 /\ FieldValue(k, ln).found
                    THEN FieldValue(k, ln).val ELSE acc.values[k]],
     colors |-> [k \in Fields |->
                    IF k # 0 /\ Find(ln, Rules[k].label) # -1
                    THEN colour ELSE acc.colors[k]]]

\* _parse_frame, lines 254-273: the loop over the lines from line i on.
RECURSIVE ParseRows(_, _, _, _)
ParseRows(lines, matrix, i, acc) ==
    IF i > Len(lines) THEN acc
    ELSE ParseRows(lines, matrix, i + 1,
                   IF Strip(lines[i]) = <<>> THEN acc
                   ELSE ApplyRules(lines[i], RowColour(matrix, i), acc))

\* _parse_frame, lines 230-236: the ID and its colour come from the first
\* line in which ID:XXXX is found.
ParseId(lines, matrix, acc) ==
    LET ids == {i \in DOMAIN lines : IdOnScreen(lines[i]) # NoId}
    IN  IF ids = {} THEN acc
        ELSE [values |-> [acc.values EXCEPT ![0] =
                             IdOnScreen(lines[CHOOSE i \in ids : \A k \in ids : i <= k])],
              colors |-> [acc.colors EXCEPT ![0] =
                             RowColour(matrix, CHOOSE i \in ids : \A k \in ids : i <= k)]]

\* MPPTLogger._parse_frame(lines, color_matrix), the lines being those of
\* screen.display, which hold no control sequences.
ParseFrame(lines, matrix) ==
    ParseRows(lines, matrix, 1,
              ParseId(lines, matrix,
                      [values |-> [k \in Fields |-> IF k = 0 THEN NoId ELSE <<>>],
                       colors |-> [k \in Fields |-> "000000"]]))

\* -------------------------------------------------------------------- PSU
\* U/I pairs typed into the setpoint entries (those of DEFAULT_PRESETS).
Setpoints == {[u |-> 5, i |-> 1], [u |-> 12, i |-> 3]}

\* OwonPSU.open on the supply d: the port is opened, REMOTE and KeyLock
\* are requested and the output is switched off; an exception of
\* set_output(False) is swallowed (off_ok is whether it went through).
OwonOpen(d, off_ok) == IF off_ok THEN [d EXCEPT !.output = FALSE] ELSE d

\* ------------------------------------------------------------------ state
VARIABLES
    running,              \* MPPTTerminalPanel.running
    autoconnect_enabled,  \* MPPTTerminalPanel.autoconnect_enabled
    ser,                  \* SerialAuto.ser is an open port
    readers,              \* number of threads inside _reader_loop
    in_read,              \* those of them past the loop condition, at read_all()
    lost_q,               \* queued after(0, _on_port_lost) callbacks
    frame_buf,            \* MPPTTerminalPanel._frame_buf
    emitted,              \* history: arguments of _process_full_frame, in order
    received,             \* history: all decoded text read so far
    stale_len,            \* history: leading characters of _frame_buf that were
                          \*   received before the last loss/close of the link
    \* ---- MPPTLogger and its files
    last_passed_id,       \* MPPTLogger.last_passed_id ("" is None)
    txt_log,              \* blocks of mppt_log.txt, in order
    xlsx,                 \* mppt_log.xlsx on disk: NoFile or a workbook
    sb,                   \* per calling thread: its save_block call
    auto_hist,            \* history: the last two finished auto saves of
                          \*   PASSED frames with a known fingerprint,
                          \*   [id, result], oldest first
    ncalls,               \* history: number of save_block calls so far
    last_call,            \* history: the save_block call that returned last
    \* ---- frame processing and the terminal
    device_short_id,      \* MPPTTerminalPanel.device_short_id ("" is None)
    screen,               \* PyteTerminal.screen: the cells shown and the
                          \*   colour selected
    pf,                   \* the reader's _process_full_frame call
    hist,                 \* history: frames handled and button presses so
                          \*   far, the frame and the text last passed to
                          \*   PyteTerminal.feed, the arguments of the last
                          \*   save_block call (colors: the first row of
                          \*   the colour matrix)
    \* ---- the canvas
    last_chars,           \* CanvasTerminal.last_chars, first row
    last_colors,          \* CanvasTerminal.last_colors, first row
    canvas,               \* text and fill of the canvas items, first row
    render_scheduled,     \* MPPTTerminalPanel._render_scheduled
    render_q,             \* queued after(0, _do_render) callbacks
    render_pos,           \* the column a render_diff pass in progress is
                          \*   about to handle, 0 when none is in progress
    rend,                 \* history: render_diff passes so far modulo 2,
                          \*   whether there was one, the cells the last
                          \*   pass read and those it updated, whether it
                          \*   read the same cells as the pass before
    \* ---- the power supply panel
    psu_connected,        \* PSUControlPanel.connected (and psu is not None)
    current_output_state, \* PSUControlPanel.current_output_state
    dev,                  \* the power supply: its output and setpoints
    psu_last,             \* history: the last handler of the panel and how
                          \*   it ended
    \* ---- the "+" button
    plus_running,         \* MPPTTerminalPanel._plus_running
    plus_workers,         \* where each thread started by _plus_press is
    \* ---- the record parser
    pj,                   \* history: the last _parse_frame call, its
                          \*   arguments and what it returned
    \* ---- Tk
    tk_touched            \* history: the threads that have read or changed
                          \*   a Tk widget or variable

rvars == <<running, autoconnect_enabled, ser, readers, in_read, lost_q,
           frame_buf, emitted, received, stale_len>>

lvars == <<last_passed_id, txt_log, xlsx, sb, auto_hist, ncalls, last_call>>

pvars == <<device_short_id, screen, pf, hist>>

cvars == <<last_chars, last_colors, canvas, render_pos, rend>>

svars == <<render_scheduled, render_q>>

uvars == <<psu_connected, current_output_state, dev, psu_last>>

xvars == <<plus_running, plus_workers, pj>>

ovars == <<cvars, svars, uvars, xvars>>

vars == <<rvars, lvars, pvars, ovars, tk_touched>>

\* MPPTTerminalPanel.__init__ and SerialAuto.__init__
ReaderInit ==
    /\ running = FALSE
    /\ autoconnect_enabled = TRUE
    /\ ser = FALSE
    /\ readers = 0
    /\ in_read = 0
    /\ lost_q = 0
    /\ frame_buf = <<>>
    /\ emitted = <<>>
    /\ received = <<>>
    /\ stale_len = 0

history == <<emitted, received, stale_len>>

\* No _process_full_frame call is in progress.
IdlePf == [pc |-> "idle", frame |-> <<>>, text |-> <<>>]

NoSave == [thread |-> "none", short_id |-> NoId, shown |-> <<>>, pending |-> <<>>,
           colors |-> <<>>]

\* MPPTTerminalPanel.__init__: device_short_id = None, a blank terminal.
FrameInit ==
    /\ device_short_id = NoId
    /\ screen = BlankScreen
    /\ pf = IdlePf
    /\ hist = [nmanual |-> 0, nframes |-> 0, frame |-> <<>>, fed |-> <<>>, save |-> NoSave]

\* CanvasTerminal.__init__: every item shows " " in the default colour;
\* no render is scheduled.
CanvasInit ==
    /\ last_chars = [c \in Cells |-> " "]
    /\ last_colors = [c \in Cells |-> DefaultColor]
    /\ canvas = [c \in Cells |-> [text |-> " ", fill |-> DefaultColor]]
    /\ render_scheduled = FALSE
    /\ render_q = 0
    /\ render_pos = 0
    /\ rend = [tick |-> 0, rendered |-> FALSE, seen |-> Grid(BlankScreen),
               updates |-> {}, repeat |-> FALSE]

\* PSUControlPanel.__init__: not connected.
PsuInit ==
    /\ psu_connected = FALSE
    /\ current_output_state = FALSE
    /\ psu_last = [op |-> "none", result |-> "none"]

\* The power supply with its output off.
SupplyOff == [output |-> FALSE, u |-> 0, i |-> 0]

\* The threads of the "+" button: "none" is no thread, "check" a thread at
\* the condition of its while loop, "write" one that found the condition
\* true and is at ser.write(b"+"), "sleep" one in time.sleep(0.07).
PlusWorkers == 1..MaxPlus

\* No _parse_frame call yet.
NoParse == [done |-> FALSE, lines |-> <<>>, matrix |-> <<>>,
            values |-> <<>>, colors |-> <<>>]

\* MPPTTerminalPanel.__init__, line 114: the "+" button is not held.
PlusInit ==
    /\ plus_running = FALSE
    /\ plus_workers = [w \in PlusWorkers |-> "none"]

\* AppLayout.__init__: the panels and the status bar are built.
PanelInit == CanvasInit /\ PsuInit /\ PlusInit /\ pj = NoParse /\ tk_touched = {}

\* ------------------------------------------------------------------ link
\* SerialAuto.ensure: an open port is kept, otherwise connect() tries to
\* open one; ok is whether serial.Serial(...) succeeds.
Ensure(ok) == ser \/ ok

\* threading.Thread(target=self._reader_loop).start()
SpawnReader == readers' = readers + 1

\* The link goes down with _frame_buf as it is: what it holds was received
\* before the loss.
MarkStale == stale_len' = Len(frame_buf)

\* Mutant: the timer connects whether or not auto-connect is enabled.
AutoconnectWanted_Always == ~running

\* _autoconnect_loop, lines 241-245: the tick tries to connect when
\* auto-connect is enabled and the panel is not running; every path
\* re-arms the timer (lines 242, 258).
AutoconnectWanted == autoconnect_enabled /\ ~running

\* _autoconnect_loop: one tick of the 500 ms timer that finds auto-connect
\* enabled and the panel not running.
AutoconnectLoop ==
    /\ AutoconnectWanted
    /\ readers < MaxReaders
    /\ \E ok \in BOOLEAN :
          /\ ser' = Ensure(ok)
          /\ IF Ensure(ok)
             THEN running' = TRUE /\ SpawnReader
             ELSE UNCHANGED <<running, readers>>
    /\ UNCHANGED <<autoconnect_enabled, in_read, lost_q, frame_buf, history>>
    /\ tk_touched' = tk_touched \cup {"main"}
    /\ UNCHANGED <<lvars, pvars, ovars>>

\* toggle_connect while running: the user disconnects.
ToggleDisconnect ==
    /\ running
    /\ running' = FALSE
    /\ autoconnect_enabled' = FALSE
    /\ ser' = FALSE
    /\ MarkStale
    /\ UNCHANGED <<readers, in_read, lost_q, frame_buf, emitted, received>>
    /\ tk_touched' = tk_touched \cup {"main"}
    /\ UNCHANGED <<lvars, pvars, ovars>>

\* toggle_connect while not running: the user connects.
ToggleConnect ==
    /\ ~running
    /\ readers < MaxReaders
    /\ autoconnect_enabled' = TRUE
    /\ \E ok \in BOOLEAN :
          /\ ser' = Ensure(ok)
          /\ IF Ensure(ok)
             THEN running' = TRUE /\ SpawnReader
             ELSE running' = FALSE /\ UNCHANGED readers
    /\ UNCHANGED <<in_read, lost_q, frame_buf, history>>
    /\ tk_touched' = tk_touched \cup {"main"}
    /\ UNCHANGED <<lvars, pvars, ovars>>

\* Mutant: a lost port switches auto-connect off.
LostAutoconnect_Off(enabled) == FALSE

\* _on_port_lost, line 311: auto-connect is left as it is.
LostAutoconnect(enabled) == enabled

\* _on_port_lost, run by the main thread from the after() queue.
OnPortLost ==
    /\ lost_q > 0
    /\ lost_q' = lost_q - 1
    /\ running' = FALSE
    /\ autoconnect_enabled' = LostAutoconnect(autoconnect_enabled)
    /\ ser' = FALSE
    /\ MarkStale
    /\ UNCHANGED <<readers, in_read, frame_buf, emitted, received>>
    /\ tk_touched' = tk_touched \cup {"main"}
    /\ UNCHANGED <<lvars, pvars, ovars>>

\* ------------------------------------------------------------------ reader
\* Number of reader threads inside _process_full_frame.
Busy == IF pf.pc = "idle" THEN 0 ELSE 1

\* _reader_loop: `while self.running and self.serial.ser` holds; the thread
\* goes on to read_all().
ReaderCheck ==
    /\ readers - in_read - Busy > 0
    /\ running /\ ser
    /\ in_read' = in_read + 1
    /\ UNCHANGED <<running, autoconnect_enabled, ser, readers, lost_q,
                   frame_buf, history>>
    /\ UNCHANGED <<lvars, pvars, ovars, tk_touched>>

\* _reader_loop: the loop condition fails and the thread ends.
ReaderExit ==
    /\ readers - in_read - Busy > 0
    /\ ~(running /\ ser)
    /\ readers' = readers - 1
    /\ UNCHANGED <<running, autoconnect_enabled, ser, in_read, lost_q,
                   frame_buf, history>>
    /\ UNCHANGED <<lvars, pvars, ovars, tk_touched>>

\* Mutant: the failed read is not reported.
QueuePortLost_None(q) == q

\* _reader_loop, line 332: self.after(0, ... self._on_port_lost(m)) adds
\* one callback to the queue of the main thread.
QueuePortLost(q) == q + 1

\* _reader_loop: read_all() raises (the device is gone, or the main thread
\* has closed the port since the loop condition was tested);
\* _on_port_lost is queued and the loop is left.
ReaderReadFails ==
    /\ in_read > 0
    /\ lost_q < MaxLostQ
    /\ lost_q' = QueuePortLost(lost_q)
    /\ in_read' = in_read - 1
    /\ readers' = readers - 1
    /\ UNCHANGED <<running, autoconnect_enabled, ser, frame_buf, history>>
    /\ UNCHANGED <<lvars, pvars, ovars, tk_touched>>

\* _reader_loop, lines 343-366: the decoded chunk is split at every
\* ESC[2J; each completed frame goes to _process_full_frame. No text over
\* Chars shows PASSED, so _process_full_frame does not get to save_block
\* here.
HandleChunk(chunk) ==
    \E r \in {SplitLoop(frame_buf, chunk, <<>>)},
       found \in {Find(chunk, ESC_CLEAR) # -1} :
    \E st \in {AfterFrames([id |-> device_short_id, screen |-> screen,
                            frame |-> hist.frame, fed |-> hist.fed,
                            n |-> hist.nframes], r.out)} :
        /\ frame_buf' = r.fb
        /\ emitted' = emitted \o r.out
        /\ stale_len' = IF found THEN 0 ELSE stale_len
        /\ device_short_id' = st.id
        /\ screen' = st.screen
        /\ hist' = [hist EXCEPT !.nframes = st.n, !.frame = st.frame,
                                 !.fed = st.fed]
        /\ render_scheduled' = (render_scheduled \/ r.out # <<>>)
        /\ render_q' = IF render_scheduled \/ r.out = <<>>
                       THEN render_q ELSE render_q + 1

\* _reader_loop: read_all() returns a non-empty decoded chunk, and the
\* reader handles it before any other thread runs. max bounds the text
\* received in the run.
ReaderChunk(max) ==
    /\ in_read > 0
    /\ ser
    /\ Len(received) < max
    /\ in_read' = in_read - 1
    /\ \E chunk \in Texts(1, max - Len(received)) :
          /\ HandleChunk(chunk)
          /\ received' = received \o chunk
    /\ UNCHANGED <<running, autoconnect_enabled, ser, readers, lost_q>>
    /\ UNCHANGED <<lvars, pf, cvars, uvars, xvars, tk_touched>>

\* _reader_loop, lines 327-341: read_all() returns a non-empty decoded
\* chunk to a reader that other threads may overtake before it handles
\* the chunk; pf follows this reader.
ReaderRead(max) ==
    /\ in_read > 0
    /\ ser
    /\ pf.pc = "idle"
    /\ Len(received) < max
    /\ in_read' = in_read - 1
    /\ \E chunk \in Texts(1, max - Len(received)) :
          /\ pf' = [pc |-> "chunk", frame |-> <<>>, text |-> chunk]
          /\ received' = received \o chunk
    /\ UNCHANGED <<running, autoconnect_enabled, ser, readers, lost_q,
                   frame_buf, emitted, stale_len>>
    /\ UNCHANGED <<lvars, device_short_id, screen, hist, ovars, tk_touched>>

\* _reader_loop, lines 343-366, by the reader that holds a chunk.
ReaderSplit ==
    /\ pf.pc = "chunk"
    /\ HandleChunk(pf.text)
    /\ pf' = IdlePf
    /\ UNCHANGED <<running, autoconnect_enabled, ser, readers, in_read, lost_q,
                   received>>
    /\ UNCHANGED <<lvars, cvars, uvars, xvars, tk_touched>>

\* _reader_loop: read_all() returns nothing (or only NUL and undecodable
\* bytes); the thread sleeps and tests the loop condition again.
ReaderNoData ==
    /\ in_read > 0
    /\ ser
    /\ in_read' = in_read - 1
    /\ UNCHANGED <<running, autoconnect_enabled, ser, readers, lost_q,
                   frame_buf, history>>
    /\ UNCHANGED <<lvars, pvars, ovars, tk_touched>>


\* ------------------------------------------------------------------ logger
\* Device fingerprints (4 hex digits in the program); "" is None / empty.
Ids == {"F", "G"}

\* The threads that call MPPTLogger.save_block.
Threads == {"main", "worker"}

\* The reader worker saves with auto=True (_process_full_frame), the
\* "Save block" button on the main thread with the default auto=False.
AutoOf(t) == t = "worker"

\* The `lines` argument, reduced to what save_block looks at: whether the
\* list is empty, whether some line contains PASSED, and the ID:XXXX that
\* _parse_frame finds on the screen ("" when there is none).
NoLines == [empty |-> TRUE, passed |-> FALSE, id_line |-> NoId]
Screens == {NoLines} \cup [empty : {FALSE}, passed : BOOLEAN, id_line : Ids \cup {NoId}]

\* A spreadsheet row or a text-log block: the ID it was saved under and
\* whether an auto-triggered save wrote it.
Header == [id |-> "hdr", auto |-> FALSE]
Entry(id, auto) == [id |-> id, auto |-> auto]

\* The workbook file: absent, or its two sheets.
NoFile  == [exists |-> FALSE, has_passed |-> FALSE, main |-> <<>>, passed |-> <<>>]
\* Workbook() with both header rows, as _ensure_workbook creates it.
FreshWb == [exists |-> TRUE, has_passed |-> TRUE,
            main |-> <<Header>>, passed |-> <<Header>>]
\* A workbook written without a PASSED sheet.
OldWb   == [exists |-> TRUE, has_passed |-> FALSE,
            main |-> <<Header>>, passed |-> <<>>]

\* _ensure_workbook, file present and readable: load_workbook, and create
\* the PASSED sheet with the main sheet's first row when it is missing.
LoadWorkbook(file) ==
    IF file.has_passed THEN file
    ELSE [file EXCEPT !.has_passed = TRUE,
                      !.passed = IF Len(file.main) >= 1
                                 THEN <<file.main[1]>> ELSE <<>>]

\* Mutant: the target sheet is ignored, the row goes to the main sheet.
AppendRow_Main(wb, target, row) ==
    [wb EXCEPT !.main = Append(@, row)]

\* save_block: the row goes below the last row of the target sheet.
AppendRow(wb, target, row) ==
    IF target = "PASSED"
    THEN [wb EXCEPT !.passed = Append(@, row)]
    ELSE [wb EXCEPT !.main = Append(@, row)]

\* save_block: the text-log block is appended to mppt_log.txt.
AppendTxt(log, block) == Append(log, block)

\* save_block: `if short_id:` overrides the ID parsed from the frame.
CurId(lines, short_id) ==
    IF short_id # NoId THEN short_id ELSE lines.id_line

\* Mutant: the comparison with last_passed_id is lost.
IsDuplicate_Never(last, cur_id) == FALSE

\* save_block: `self.last_passed_id == cur_id`
IsDuplicate(last, cur_id) == last = cur_id

\* Mutant: the duplicate check is applied to manual saves as well.
GateResult_ManualDedupe(auto, is_passed, cur_id, last) ==
    IF auto
    THEN IF ~is_passed THEN "skip_not_passed"
         ELSE IF cur_id = NoId THEN "skip_no_id"
         ELSE IF IsDuplicate(last, cur_id) THEN "skip_dup"
         ELSE "PASSED"
    ELSE IF is_passed
         THEN IF IsDuplicate(last, cur_id) THEN "skip_dup" ELSE "PASSED"
         ELSE "Sheet"

\* save_block: the decision whether and where to save: a sheet name, or
\* the reason for returning at once.
GateResult(auto, is_passed, cur_id, last) ==
    IF auto
    THEN IF ~is_passed THEN "skip_not_passed"
         ELSE IF cur_id = NoId THEN "skip_no_id"
         ELSE IF IsDuplicate(last, cur_id) THEN "skip_dup"
         ELSE "PASSED"
    ELSE IF is_passed THEN "PASSED" ELSE "Sheet"

Persisting(g) == g \in {"PASSED", "Sheet"}

\* Mutant: last_passed_id is set before the gate has decided.
GateLastId_Early(auto, g, cur_id, last) ==
    IF auto THEN cur_id ELSE last

\* save_block: last_passed_id is set when an auto save passes the gate,
\* before anything is written.
GateLastId(auto, g, cur_id, last) ==
    IF auto /\ g = "PASSED" THEN cur_id ELSE last

\* Mutant: the workbook is handled before the text log is written.
StepAfterGate_Workbook == "ensure"

\* The order of the three writing steps of save_block.
StepAfterGate == "txt"
StepAfterTxt == "ensure"
StepAfterEnsure == "save"

\* What is on disk and in the logger when a call starts.
Snapshot == [last |-> last_passed_id, txt |-> txt_log, xlsx |-> xlsx]

IdleCall == [pc |-> "idle", thread |-> "none", auto |-> FALSE, empty |-> TRUE,
             passed |-> FALSE, cur_id |-> NoId, target |-> "", result |-> "",
             wb |-> NoFile, base |-> NoFile,
             pre |-> [last |-> NoId, txt |-> <<>>, xlsx |-> NoFile]]

LogInit ==
    /\ last_passed_id = NoId
    /\ txt_log = <<>>
    /\ xlsx \in {NoFile, OldWb}
    /\ sb = [t \in Threads |-> IdleCall]
    /\ auto_hist = <<>>
    /\ ncalls = 0
    /\ last_call = IdleCall

\* No save_block call is in progress.
Quiet == \A t \in Threads : sb[t].pc = "idle"

\* The last two entries of a history.
LastTwo(h) == IF Len(h) <= 2 THEN h ELSE SubSeq(h, Len(h) - 1, Len(h))

\* save_block calls _set_status before it returns with one of these
\* results (lines 307, 333, 369, 377, 381); the silent returns and the
\* exceptions show nothing.
ShowsStatus(result) == result \in {"no_lines", "skip_no_id", "xlsx_locked", "saved"}

\* save_block returns (or raises) with the given result. _set_status calls
\* status_callback, which AppLayout has set to StatusBar.set: the calling
\* thread sets the Tk variable and configures the label.
Return(t, call, result) ==
    LET done == [call EXCEPT !.pc = "done", !.result = result]
    IN  /\ sb' = [sb EXCEPT ![t] = IdleCall]
        /\ last_call' = done
        /\ auto_hist' = IF done.auto /\ done.passed /\ done.cur_id # NoId
                        THEN LastTwo(Append(auto_hist,
                                            [id |-> done.cur_id, result |-> result]))
                        ELSE auto_hist
        /\ tk_touched' = IF ShowsStatus(result) THEN tk_touched \cup {t}
                          ELSE tk_touched

\* save_block up to the decision, lines 306-346.
SaveBlockEnter(t, lines, short_id) ==
    LET auto == AutoOf(t)
        cur  == CurId(lines, short_id)
        g    == IF lines.empty THEN "no_lines"
                ELSE GateResult(auto, lines.passed, cur, last_passed_id)
        call == [pc |-> StepAfterGate, thread |-> t, auto |-> auto,
                 empty |-> lines.empty, passed |-> lines.passed, cur_id |-> cur,
                 target |-> IF Persisting(g) THEN g ELSE "", result |-> "",
                 wb |-> NoFile, base |-> NoFile, pre |-> Snapshot]
    IN  /\ sb[t].pc = "idle"
        /\ ncalls < MaxCalls
        /\ ncalls' = ncalls + 1
        /\ last_passed_id' = IF lines.empty THEN last_passed_id
                             ELSE GateLastId(auto, g, cur, last_passed_id)
        /\ IF Persisting(g)
           THEN /\ sb' = [sb EXCEPT ![t] = call]
                /\ UNCHANGED <<last_call, auto_hist, tk_touched>>
           ELSE Return(t, call, g)
        /\ UNCHANGED <<txt_log, xlsx>>

\* save_block, lines 349-355: the text-log block; open() or write() may
\* raise, and nothing in save_block catches that.
WriteTxt(t) ==
    /\ sb[t].pc = "txt"
    /\ \E ok \in BOOLEAN :
          IF ok
          THEN /\ txt_log' = AppendTxt(txt_log, Entry(sb[t].cur_id, sb[t].auto))
               /\ sb' = [sb EXCEPT ![t].pc = StepAfterTxt]
               /\ UNCHANGED <<last_call, auto_hist, tk_touched>>
          ELSE /\ Return(t, sb[t], "raised_txt")
               /\ UNCHANGED txt_log
    /\ UNCHANGED <<last_passed_id, xlsx, ncalls>>

\* _ensure_workbook, called at line 358. A present file is loaded; when
\* loading raises it is moved aside (replaced: whether os.replace works)
\* and, as when there is no file, a new workbook is created and saved at
\* once; that save is not guarded, so its failure leaves save_block as an
\* exception.
EnsureWorkbook(t) ==
    /\ sb[t].pc = "ensure"
    /\ \E load_ok, replaced, created \in BOOLEAN :
          IF xlsx.exists /\ load_ok
          THEN /\ sb' = [sb EXCEPT ![t].pc = StepAfterEnsure,
                                   ![t].wb = LoadWorkbook(xlsx),
                                   ![t].base = LoadWorkbook(xlsx)]
               /\ UNCHANGED <<xlsx, last_call, auto_hist, tk_touched>>
          ELSE LET moved == IF xlsx.exists /\ replaced THEN NoFile ELSE xlsx
               IN  IF created
                   THEN /\ xlsx' = FreshWb
                        /\ sb' = [sb EXCEPT ![t].pc = StepAfterEnsure,
                                            ![t].wb = FreshWb,
                                            ![t].base = FreshWb]
                        /\ UNCHANGED <<last_call, auto_hist, tk_touched>>
                   ELSE /\ xlsx' = moved
                        /\ Return(t, sb[t], "raised_wb")
    /\ UNCHANGED <<last_passed_id, txt_log, ncalls>>

\* save_block, lines 359-373: the row is put into the target sheet and the
\* workbook saved; PermissionError is caught and reported.
SaveWorkbook(t) ==
    /\ sb[t].pc = "save"
    /\ LET wb2 == AppendRow(sb[t].wb, sb[t].target, Entry(sb[t].cur_id, sb[t].auto))
       IN  \E ok \in BOOLEAN :
              IF ok
              THEN /\ xlsx' = wb2
                   /\ Return(t, [sb[t] EXCEPT !.wb = wb2], "saved")
              ELSE /\ UNCHANGED xlsx
                   /\ Return(t, [sb[t] EXCEPT !.wb = wb2], "xlsx_locked")
    /\ UNCHANGED <<last_passed_id, txt_log, ncalls>>

\* A save_block call starts while no other is in progress.
SaveBlock ==
    /\ Quiet
    /\ \E t \in Threads, lines \in Screens, short_id \in Ids \cup {NoId} :
          SaveBlockEnter(t, lines, short_id)
    /\ UNCHANGED <<rvars, pvars, ovars>>

TxtStep == (\E t \in Threads : WriteTxt(t)) /\ UNCHANGED <<rvars, pvars, ovars>>

EnsureStep == (\E t \in Threads : EnsureWorkbook(t)) /\ UNCHANGED <<rvars, pvars, ovars>>

SaveStep == (\E t \in Threads : SaveWorkbook(t)) /\ UNCHANGED <<rvars, pvars, ovars>>

\* A save_block call starts on a thread that is not in one: the "Save
\* block" button on the main thread (gui.py, lines 504-514) or
\* _process_full_frame on the reader (gui.py, lines 421-428); nothing keeps
\* the one from starting while the other is in progress.
SaveBlockAny ==
    /\ \E t \in Threads, lines \in Screens, short_id \in Ids \cup {NoId} :
          SaveBlockEnter(t, lines, short_id)
    /\ UNCHANGED <<rvars, pvars, ovars>>

\* The text-log block is written and nothing raises.
TxtStepOk ==
    /\ TxtStep
    /\ \E t \in Threads : sb[t].pc = "txt" /\ sb'[t].pc = StepAfterTxt

\* _ensure_workbook loads the file that is there, or creates the one that
\* is missing, and nothing raises.
EnsureStepOk ==
    /\ EnsureStep
    /\ \E t \in Threads : sb[t].pc = "ensure" /\ sb'[t].pc = StepAfterEnsure
    /\ xlsx.exists => xlsx' = xlsx

\* wb.save succeeds.
SaveStepOk ==
    /\ SaveStep
    /\ last_call'.result = "saved"

\* The save_block calls of a run, one at a time.
LogNext ==
    \/ SaveBlock
    \/ TxtStep
    \/ EnsureStep
    \/ SaveStep

\* ------------------------------------------------------- frame processing
\* The reader has split off the complete frame f and calls
\* _process_full_frame(f) (line 360); max bounds the frames of a run.
ReaderFrame(frames, max) ==
    /\ in_read > 0
    /\ ser
    /\ pf.pc = "idle"
    /\ hist.nframes < max
    /\ in_read' = in_read - 1
    /\ \E f \in frames : pf' = [pc |-> "mask", frame |-> f, text |-> <<>>]
    /\ hist' = [hist EXCEPT !.nframes = @ + 1]
    /\ UNCHANGED <<running, autoconnect_enabled, ser, readers, lost_q,
                   frame_buf, history>>
    /\ UNCHANGED <<lvars, device_short_id, screen, ovars, tk_touched>>

\* A reader runs _process_full_frame(f) from start to end without another
\* thread in between, for a frame f that does not show PASSED, while the
\* call followed step by step may be in progress on another reader.
ReaderFrameWhole(frames, max) ==
    /\ in_read > 0
    /\ ser
    /\ hist.nframes < max
    /\ in_read' = in_read - 1
    /\ \E f \in frames :
          \E st \in {AfterFrame([id |-> device_short_id, screen |-> screen,
                                 frame |-> hist.frame, fed |-> hist.fed,
                                 n |-> hist.nframes], f)} :
              /\ device_short_id' = st.id
              /\ screen' = st.screen
              /\ hist' = [hist EXCEPT !.nframes = st.n, !.frame = st.frame,
                                       !.fed = st.fed]
    /\ render_scheduled' = TRUE
    /\ render_q' = IF render_scheduled THEN render_q ELSE render_q + 1
    /\ UNCHANGED <<running, autoconnect_enabled, ser, readers, lost_q,
                   frame_buf, history>>
    /\ UNCHANGED <<lvars, pf, cvars, uvars, xvars, tk_touched>>

\* _process_full_frame, lines 385-402: the UID is looked for and masked,
\* device_short_id is set.
PFMask ==
    /\ pf.pc = "mask"
    /\ LET mk == MaskFrame(pf.frame, device_short_id)
       IN  /\ device_short_id' = mk.short
           /\ pf' = [pf EXCEPT !.pc = "feed", !.text = mk.text]
    /\ UNCHANGED <<rvars, lvars, screen, hist, ovars, tk_touched>>

\* _process_full_frame, line 405: self.term.feed(frame_text)
PFFeed ==
    /\ pf.pc = "feed"
    /\ screen' = FeedScreen(screen, pf.text)
    /\ hist' = [hist EXCEPT !.frame = pf.frame, !.fed = pf.text]
    /\ pf' = [pf EXCEPT !.pc = "save"]
    /\ UNCHANGED <<rvars, lvars, device_short_id, ovars, tk_touched>>

\* _process_full_frame, line 405: the reader calls self.term.feed with
\* the masked text, the other threads running on.
PFFeedBegin ==
    /\ pf.pc = "feed"
    /\ pf' = [pf EXCEPT !.pc = "feeding"]
    /\ hist' = [hist EXCEPT !.frame = pf.frame, !.fed = pf.text]
    /\ UNCHANGED <<rvars, lvars, device_short_id, screen, ovars, tk_touched>>

\* PyteTerminal.feed in progress: the stream handles the next character
\* or control sequence of the text (pf.text is what is still to come),
\* and returns when none is left.
PFFeedStep ==
    /\ pf.pc = "feeding"
    /\ IF pf.text = <<>>
       THEN /\ pf' = [pf EXCEPT !.pc = "save"]
            /\ UNCHANGED screen
       ELSE \E st \in {FeedOne(screen, pf.text)} :
               /\ screen' = st.scr
               /\ pf' = [pf EXCEPT !.text = st.rest]
    /\ UNCHANGED <<rvars, lvars, device_short_id, hist, ovars, tk_touched>>

\* _process_full_frame, lines 408-428: when a line of the screen shows
\* PASSED, save_block(lines, colours, device_short_id, auto=True) is
\* called; it starts while no other save_block call is in progress.
PFSave ==
    /\ pf.pc = "save"
    /\ IF HasPassed(ScreenText(screen))
       THEN /\ Quiet
            /\ SaveBlockEnter("worker", ScreenLines(screen), device_short_id)
            /\ pf' = [pf EXCEPT !.pc = "wait"]
            /\ hist' = [hist EXCEPT !.save =
                            [thread |-> "worker", short_id |-> device_short_id,
                             shown |-> hist.frame, pending |-> <<>>,
                             colors |-> last_colors]]
       ELSE /\ pf' = [pf EXCEPT !.pc = "sched"]
            /\ UNCHANGED <<lvars, hist, tk_touched>>
    /\ UNCHANGED <<rvars, device_short_id, screen, ovars>>

\* save_block has returned to _process_full_frame, or has raised: nothing
\* in _process_full_frame or _reader_loop catches that, the thread ends.
PFReturn ==
    /\ pf.pc = "wait"
    /\ sb["worker"].pc = "idle"
    /\ IF last_call.result \in {"raised_txt", "raised_wb"}
       THEN /\ pf' = IdlePf
            /\ readers' = readers - 1
       ELSE /\ pf' = [pf EXCEPT !.pc = "sched"]
            /\ UNCHANGED readers
    /\ UNCHANGED <<running, autoconnect_enabled, ser, in_read, lost_q,
                   frame_buf, history>>
    /\ UNCHANGED <<lvars, device_short_id, screen, hist, ovars, tk_touched>>

\* _process_full_frame, line 431: _schedule_render(), and the return to
\* the splitting loop.
PFSchedule ==
    /\ pf.pc = "sched"
    /\ pf' = IdlePf
    /\ IF render_scheduled
       THEN UNCHANGED <<render_scheduled, render_q>>
       ELSE render_scheduled' = TRUE /\ render_q' = render_q + 1
    /\ UNCHANGED <<rvars, lvars, device_short_id, screen, hist>>
    /\ UNCHANGED <<cvars, uvars, xvars, tk_touched>>

\* _schedule_render, line 488: the reader tests _render_scheduled and
\* returns when it is set.
PFSchedCheck ==
    /\ pf.pc = "sched"
    /\ pf' = IF render_scheduled THEN IdlePf ELSE [pf EXCEPT !.pc = "sched_set"]
    /\ UNCHANGED <<rvars, lvars, device_short_id, screen, hist, ovars, tk_touched>>

\* _schedule_render, lines 490-491, by the reader that found the flag
\* clear: it sets the flag and queues _do_render.
PFSchedSet ==
    /\ pf.pc = "sched_set"
    /\ pf' = IdlePf
    /\ render_scheduled' = TRUE
    /\ render_q' = render_q + 1
    /\ UNCHANGED <<rvars, lvars, device_short_id, screen, hist>>
    /\ UNCHANGED <<cvars, uvars, xvars, tk_touched>>

\* _do_render, run by the main thread from the after() queue: the flag is
\* cleared and, while the panel is running, CanvasTerminal.render_diff
\* brings the canvas up to the screen. The whole callback in one step: no
\* other thread runs during the pass.
DoRender ==
    /\ render_q > 0
    /\ render_pos = 0
    /\ render_q' = render_q - 1
    /\ render_scheduled' = FALSE
    /\ IF running
       THEN LET r == RenderDiff(screen, last_chars, last_colors, canvas)
            IN  /\ last_chars' = r.chars
                /\ last_colors' = r.colors
                /\ canvas' = r.items
                /\ rend' = [tick |-> 1 - rend.tick, rendered |-> TRUE,
                            seen |-> Grid(screen), updates |-> r.updates,
                            repeat |-> rend.rendered /\ rend.seen = Grid(screen)]
                /\ tk_touched' = IF r.updates # {} THEN tk_touched \cup {"main"}
                                  ELSE tk_touched
                /\ UNCHANGED render_pos
       ELSE UNCHANGED <<cvars, tk_touched>>
    /\ UNCHANGED <<rvars, lvars, pvars, uvars, xvars>>

\* _do_render up to the first cell of render_diff, the other threads
\* running on: the flag is cleared; when the panel is not running the
\* callback returns at once.
RenderBegin ==
    /\ render_q > 0
    /\ render_pos = 0
    /\ render_q' = render_q - 1
    /\ render_scheduled' = FALSE
    /\ render_pos' = IF running THEN 1 ELSE 0
    /\ UNCHANGED <<last_chars, last_colors, canvas, rend>>
    /\ UNCHANGED <<rvars, lvars, pvars, uvars, xvars, tk_touched>>

\* render_diff, lines 90-113: the pass in progress handles the next
\* column, reading the cell that the screen holds now; after the last
\* column render_diff and _do_render return.
RenderCell ==
    /\ render_pos \in Cells
    /\ \E r \in {RenderOne(screen, render_pos,
                             [chars |-> last_chars, colors |-> last_colors,
                              items |-> canvas, updates |-> {}])} :
          /\ last_chars' = r.chars
          /\ last_colors' = r.colors
          /\ canvas' = r.items
          /\ tk_touched' = IF r.updates # {} THEN tk_touched \cup {"main"}
                            ELSE tk_touched
    /\ render_pos' = IF render_pos = GridCols THEN 0 ELSE render_pos + 1
    /\ UNCHANGED <<rend, svars, uvars, xvars>>
    /\ UNCHANGED <<rvars, lvars, pvars>>

\* MPPTTerminalPanel.save_block, the "Save block" button on the main
\* thread: the screen as it is and device_short_id as it is go to
\* MPPTLogger.save_block. The button is handled while no other save_block
\* call is in progress or about to return to the reader; MaxManual bounds
\* the presses of a run.
ManualSave ==
    /\ Quiet
    /\ hist.nmanual < MaxManual
    /\ pf.pc # "wait"
    /\ SaveBlockEnter("main", ScreenLines(screen), device_short_id)
    /\ hist' = [hist EXCEPT !.nmanual = @ + 1, !.save =
                    [thread |-> "main", short_id |-> device_short_id,
                     shown |-> hist.frame,
                     pending |-> IF pf.pc = "feed" THEN pf.frame ELSE <<>>,
                     colors |-> last_colors]]
    /\ UNCHANGED <<rvars, device_short_id, screen, pf, ovars>>

\* A UID of four groups.
UID_A == <<"7", "-", "c", "-", "3", "-", "2">>

\* The pieces the frames of SpecMask are made of.
MaskSegments == {SGR_RESET, UID_A, <<" ">>, <<"\t">>, <<"\n">>, <<"-">>, <<"7">>}

\* The text made of the pieces c[1], c[2], ... in this order.
RECURSIVE Flatten(_)
Flatten(c) ==
    IF c = <<>> THEN <<>>
    ELSE c[1] \o Flatten(SubSeq(c, 2, Len(c)))

\* The reader has read a frame f of 1..MaxSegs pieces and the marker after
\* it as its first chunk and is calling _process_full_frame(f).
MaskInit ==
    /\ LogInit /\ xlsx = NoFile
    /\ running = TRUE
    /\ autoconnect_enabled = TRUE
    /\ ser = TRUE
    /\ readers = 1
    /\ in_read = 0
    /\ lost_q = 0
    /\ stale_len = 0
    /\ device_short_id = NoId
    /\ screen = BlankScreen
    /\ PanelInit /\ dev = SupplyOff
    /\ \E n \in 1..MaxSegs : \E c \in [1..n -> MaskSegments] :
          LET f == Flatten(c)
          IN  /\ pf = [pc |-> "mask", frame |-> f, text |-> <<>>]
              /\ frame_buf = f
              /\ emitted = <<f>>
              /\ received = f \o ESC_CLEAR
    /\ hist = [nmanual |-> 0, nframes |-> 1, frame |-> <<>>, fed |-> <<>>, save |-> NoSave]

\* _process_full_frame on one frame.
MaskNext ==
    \/ PFMask
    \/ PFFeed
    \/ PFSave
    \/ PFSchedule

SpecMask == MaskInit /\ [][MaskNext]_vars

\* The frames of a session in SpecFrame: with UID and PASSED, PASSED
\* alone (in lower case), a UID alone, neither.
FrameUidPassed == ESC_CLEAR \o SGR_RESET \o <<" ">> \o UID_A \o <<"\n">> \o PASSED
FramePassed == ESC_CLEAR \o <<"p", "a", "s", "s", "e", "d">>
FrameUid == ESC_CLEAR \o SGR_RESET \o <<"3", "-", "c", "-", "7", "-", "2">>
FramePlain == ESC_CLEAR \o <<"7">>
SessionFrames == {FrameUidPassed, FramePassed, FrameUid, FramePlain}

\* One connection that is never lost: the reader handing frames to
\* _process_full_frame, its saves and those of the button.
FrameNext ==
    \/ AutoconnectLoop
    \/ ReaderCheck
    \/ ReaderNoData
    \/ ReaderFrame(SessionFrames, MaxFrames)
    \/ PFMask
    \/ PFFeed
    \/ PFSave
    \/ PFReturn
    \/ PFSchedule
    \/ ManualSave
    \/ TxtStep
    \/ EnsureStep
    \/ SaveStep

\* The frames of SpecSession: those that show PASSED.
PassedFrames == {FrameUidPassed, FramePassed}

\* A session: the connection life cycle with the reader handing frames
\* to _process_full_frame and its auto saves.
SessionNext ==
    \/ AutoconnectLoop
    \/ ToggleDisconnect
    \/ ToggleConnect
    \/ OnPortLost
    \/ ReaderCheck
    \/ ReaderExit
    \/ ReaderReadFails
    \/ ReaderNoData
    \/ ReaderFrame(PassedFrames, MaxFrames)
    \/ PFMask
    \/ PFFeed
    \/ PFSave
    \/ PFReturn
    \/ PFSchedule
    \/ TxtStep
    \/ EnsureStep
    \/ SaveStep

\* ---------------------------------------------------------- the "+" button
\* _plus_press, lines 436-454: nothing without a connection or while the
\* flag is set; otherwise the flag is set and a new thread started.
PlusPress ==
    /\ running /\ ser
    /\ ~plus_running
    /\ \E w \in PlusWorkers :
          /\ plus_workers[w] = "none"
          /\ \A v \in PlusWorkers : v < w => plus_workers[v] # "none"
          /\ plus_workers' = [plus_workers EXCEPT ![w] = "check"]
    /\ plus_running' = TRUE
    /\ UNCHANGED <<rvars, lvars, pvars, cvars, svars, uvars, pj, tk_touched>>

\* _plus_release, lines 456-464: the flag is cleared and the main thread
\* writes one "+" itself if the link is up.
PlusRelease ==
    /\ plus_running' = FALSE
    /\ UNCHANGED <<rvars, lvars, pvars, cvars, svars, uvars, plus_workers, pj, tk_touched>>

\* worker, line 447: the condition of the while loop; the thread ends when
\* it is false.
PlusCheck ==
    /\ \E w \in PlusWorkers :
          /\ plus_workers[w] = "check"
          /\ plus_workers' = [plus_workers EXCEPT ![w] =
                 IF plus_running /\ running /\ ser THEN "write" ELSE "none"]
    /\ UNCHANGED <<rvars, lvars, pvars, cvars, svars, uvars, plus_running, pj, tk_touched>>

\* worker, lines 448-451: ser.write(b"+"); an exception, as when the port
\* was closed after the condition was read, ends the thread.
PlusWrite ==
    /\ \E w \in PlusWorkers :
          /\ plus_workers[w] = "write"
          /\ plus_workers' = [plus_workers EXCEPT ![w] =
                 IF ser THEN "sleep" ELSE "none"]
    /\ UNCHANGED <<rvars, lvars, pvars, cvars, svars, uvars, plus_running, pj, tk_touched>>

\* worker, line 452: time.sleep(0.07) is over.
PlusSleep ==
    /\ \E w \in PlusWorkers :
          /\ plus_workers[w] = "sleep"
          /\ plus_workers' = [plus_workers EXCEPT ![w] = "check"]
    /\ UNCHANGED <<rvars, lvars, pvars, cvars, svars, uvars, plus_running, pj, tk_touched>>

\* ------------------------------------------------------- parsing a frame
\* Screen lines that _parse_frame is tried on: an ID in upper and in lower
\* case, fields with and without their value, a blank line.
ParseLines ==
    {<<"I", "D", ":", "A", "B", "1", "2">>,
     <<" ", "I", "D", ":", "c", "d", "3", "4">>,
     <<"U", "A", "R", "T", " ", "[", "+", "+", "]">>,
     <<"U", "A", "R", "T", " ", "[", " ", "-", "]", "]">>,
     <<"U", "A", "R", "T">>,
     <<" ", "U", "_", "b", "a", "t", " ", " ", "1", "4", " ", "m", "V">>,
     <<"U", "_", "b", "a", "t", " ", "-", "7">>,
     <<"U", "_", "b", "a", "t", ":">>,
     <<" ", " ">>}

\* The colours a row of last_colors starts with.
RowColours == {"#e8eaed", "#ff5555", "#50fa7b"}

\* MPPTLogger._parse_frame is called on up to MaxLines lines and a colour
\* matrix of as many rows. The method reads and writes no state of the
\* logger, so one call shows what every call does.
ParseCall ==
    /\ ~pj.done
    /\ \E n \in 1..MaxLines :
          \E lines \in [1..n -> ParseLines], first \in [1..n -> RowColours] :
          \E matrix \in {[i \in 1..n |-> <<first[i], "#e8eaed">>]} :
          \E r \in {ParseFrame(lines, matrix)} :
              pj' = [done |-> TRUE, lines |-> lines, matrix |-> matrix,
                     values |-> r.values, colors |-> r.colors]
    /\ UNCHANGED <<plus_running, plus_workers>>
    /\ UNCHANGED <<rvars, lvars, pvars, cvars, svars, uvars, tk_touched>>

\* ------------------------------------------------------------ PSU panel
\* A handler of the PSU panel has ended; every one of them shows a status
\* (PSUControlPanel._set_status configures the labels).
PsuDone(op, result) ==
    /\ psu_last' = [op |-> op, result |-> result]
    /\ tk_touched' = tk_touched \cup {"main"}
    /\ UNCHANGED <<rvars, lvars, pvars, cvars, svars, xvars>>

\* _toggle_connect while not connected, lines 353-403: OwonPSU.open (the
\* port may fail to open, or none is selected), then the output state is
\* read back, False when get_output raises.
PsuConnect ==
    /\ ~psu_connected
    /\ \E open_ok, off_ok, get_ok \in BOOLEAN :
          IF open_ok
          THEN /\ dev' = OwonOpen(dev, off_ok)
               /\ current_output_state' = (get_ok /\ dev'.output)
               /\ psu_connected' = TRUE
               /\ PsuDone("connect", "connected")
          ELSE /\ psu_connected' = FALSE
               /\ UNCHANGED <<dev, current_output_state>>
               /\ PsuDone("connect", "failed")

\* _toggle_connect while connected, lines 329-351: the port is closed;
\* nothing is sent to the supply.
PsuDisconnect ==
    /\ psu_connected
    /\ psu_connected' = FALSE
    /\ current_output_state' = FALSE
    /\ UNCHANGED dev
    /\ PsuDone("disconnect", "disconnected")

\* _reset_com on a connected supply, lines 416-436: close, then
\* OwonPSU.open on the same port; current_output_state is not touched.
PsuResetCom ==
    /\ psu_connected
    /\ \E open_ok, off_ok \in BOOLEAN :
          IF open_ok
          THEN /\ dev' = OwonOpen(dev, off_ok)
               /\ psu_connected' = TRUE
               /\ PsuDone("reset", "reopened")
          ELSE /\ psu_connected' = FALSE
               /\ UNCHANGED dev
               /\ PsuDone("reset", "failed")
    /\ UNCHANGED current_output_state

\* _apply_setpoints on a connected supply, lines 464-485. valid: the two
\* entries parse as numbers; sent: how many of the commands set_voltage,
\* set_current, set_output(True) go through before one raises (the last
\* is sent only when current_output_state is False).
PsuApply ==
    /\ psu_connected
    /\ \E valid \in BOOLEAN, sp \in Setpoints, sent \in 0..3 :
          IF ~valid
          THEN /\ UNCHANGED <<dev, current_output_state>>
               /\ PsuDone("apply", "rejected")
          ELSE LET need_on == ~current_output_state
                   all == sent = 3 \/ (sent = 2 /\ ~need_on)
               IN  /\ dev' = [output |-> IF need_on /\ sent = 3 THEN TRUE
                                          ELSE dev.output,
                               u |-> IF sent >= 1 THEN sp.u ELSE dev.u,
                               i |-> IF sent >= 2 THEN sp.i ELSE dev.i]
                   /\ current_output_state' =
                          IF need_on /\ sent = 3 THEN TRUE
                          ELSE current_output_state
                   /\ PsuDone("apply", IF all THEN "applied" ELSE "failed")
    /\ UNCHANGED psu_connected

\* _toggle_output on a connected supply, lines 493-503.
PsuToggleOutput ==
    /\ psu_connected
    /\ \E ok \in BOOLEAN :
          IF ok
          THEN /\ dev' = [dev EXCEPT !.output = ~current_output_state]
               /\ current_output_state' = ~current_output_state
               /\ PsuDone("output", "switched")
          ELSE /\ UNCHANGED <<dev, current_output_state>>
               /\ PsuDone("output", "failed")
    /\ UNCHANGED psu_connected

\* The buttons of the PSU panel.
PsuNext ==
    \/ PsuConnect
    \/ PsuDisconnect
    \/ PsuResetCom
    \/ PsuApply
    \/ PsuToggleOutput

\* ESC [ 31 m: red foreground.
SGR_RED == <<"ESC", "[", "3", "1", "m">>

\* The frames of SpecRender: one character, two characters, the same two
\* with the first in red, one red character with red left selected.
FrameA == ESC_CLEAR \o <<"A">>
FrameAB == ESC_CLEAR \o <<"A", "B">>
FrameRedAB == ESC_CLEAR \o SGR_RED \o <<"A">> \o SGR_RESET \o <<"B">>
FrameRedA == ESC_CLEAR \o SGR_RED \o <<"A">>
RenderFrames == {FrameA, FrameAB, FrameRedAB, FrameRedA}

\* One connection that is never lost: the reader feeding frames to the
\* terminal and the main thread rendering them.
RenderNext ==
    \/ AutoconnectLoop
    \/ ReaderCheck
    \/ ReaderFrame(RenderFrames, MaxFrames)
    \/ PFMask
    \/ PFFeed
    \/ PFSave
    \/ PFSchedule
    \/ DoRender

\* The reader with the connection life cycle.
Next ==
    \/ AutoconnectLoop
    \/ ToggleDisconnect
    \/ ToggleConnect
    \/ OnPortLost
    \/ ReaderCheck
    \/ ReaderExit
    \/ ReaderReadFails
    \/ ReaderNoData
    \/ ReaderChunk(MaxRecv)

\* A first run: no log files yet.
Init ==
    /\ ReaderInit /\ LogInit /\ FrameInit /\ PanelInit
    /\ xlsx = NoFile /\ dev = SupplyOff

Spec == Init /\ [][Next]_vars

\* Connecting and disconnecting by the user, with one reader followed
\* between its read and the handling of what it has read.
OvertakeNext ==
    \/ AutoconnectLoop
    \/ ToggleDisconnect
    \/ ToggleConnect
    \/ ReaderCheck
    \/ ReaderExit
    \/ ReaderChunk(MaxRecv)
    \/ ReaderRead(MaxRecv)
    \/ ReaderSplit

SpecOvertake == Init /\ [][OvertakeNext]_vars

\* The frame splitter alone: one connection, never lost, and a longer stream.
SplitNext ==
    \/ AutoconnectLoop
    \/ ReaderCheck
    \/ ReaderChunk(MaxStream)

SpecSplit == Init /\ [][SplitNext]_vars

\* The logger alone, with or without a workbook left by an earlier run.
InitLog == ReaderInit /\ LogInit /\ FrameInit /\ PanelInit /\ dev = SupplyOff

SpecLog == InitLog /\ [][LogNext]_vars

\* Manual saves on the main thread and auto saves on the reader, in any
\* interleaving of their steps, with no file operation failing.
LogRaceNext ==
    \/ SaveBlockAny
    \/ TxtStepOk
    \/ EnsureStepOk
    \/ SaveStepOk

SpecLogRace == InitLog /\ [][LogRaceNext]_vars

SpecFrame == Init /\ [][FrameNext]_vars

SpecSession == Init /\ [][SessionNext]_vars

SpecRender == Init /\ [][RenderNext]_vars

\* The frames of SpecColour: PASSED in red and then the UID, on one line;
\* the UID and PASSED in the default colour.
FrameRedPassed == ESC_CLEAR \o SGR_RED \o PASSED \o SGR_RESET \o UID_A
ColourFrames == {FrameRedPassed, FrameUidPassed}

\* One connection that is never lost: frames that show PASSED, the auto
\* saves of the reader and the render passes of the main thread.
ColourNext ==
    \/ AutoconnectLoop
    \/ ReaderCheck
    \/ ReaderFrame(ColourFrames, MaxFrames)
    \/ PFMask
    \/ PFFeed
    \/ PFSave
    \/ PFReturn
    \/ PFSchedule
    \/ DoRender
    \/ TxtStep
    \/ EnsureStep
    \/ SaveStep

SpecColour == Init /\ [][ColourNext]_vars

\* The threads of the panel step by step: connecting and disconnecting,
\* readers handing frames to _process_full_frame, feed and render_diff in
\* progress.
RaceNext ==
    \/ AutoconnectLoop
    \/ ToggleDisconnect
    \/ ToggleConnect
    \/ ReaderCheck
    \/ ReaderExit
    \/ ReaderFrame(RenderFrames, MaxFrames)
    \/ ReaderFrameWhole(RenderFrames, MaxFrames)
    \/ PFMask
    \/ PFFeedBegin
    \/ PFFeedStep
    \/ PFSave
    \/ PFSchedCheck
    \/ PFSchedSet
    \/ RenderBegin
    \/ RenderCell

SpecRace == Init /\ [][RaceNext]_vars

\* The PSU panel and its power supply.
SpecPsu == Init /\ [][PsuNext]_vars

\* The "+" button and its threads on a link that comes and goes.
PlusNext ==
    \/ AutoconnectLoop
    \/ ToggleDisconnect
    \/ ToggleConnect
    \/ ReaderCheck
    \/ ReaderExit
    \/ PlusPress
    \/ PlusRelease
    \/ PlusCheck
    \/ PlusWrite
    \/ PlusSleep

SpecPlus == Init /\ [][PlusNext]_vars

\* The record parser on its own.
ParseNext ==
    \/ ParseCall

SpecParse == Init /\ [][ParseNext]_vars

\* A session of plain frames with the whole connection life cycle.
LiveNext ==
    \/ AutoconnectLoop
    \/ ToggleDisconnect
    \/ ToggleConnect
    \/ OnPortLost
    \/ ReaderCheck
    \/ ReaderExit
    \/ ReaderReadFails
    \/ ReaderNoData
    \/ ReaderFrame({FramePlain}, MaxFrames)
    \/ PFMask
    \/ PFFeed
    \/ PFSave
    \/ PFSchedule

\* A tick of _autoconnect_loop whose attempt to open the port succeeds.
AutoconnectOk == AutoconnectLoop /\ ser'

\* read_all() on a port that the main thread has closed raises.
ReadFailsClosed == ReaderReadFails /\ ~ser

\* Scheduling: Tk runs the queued _on_port_lost and keeps firing the
\* re-armed 500 ms timer, the port can be opened again, and the reader
\* thread keeps running until it leaves its loop.
LiveFairness ==
    /\ WF_vars(OnPortLost)
    /\ WF_vars(AutoconnectOk)
    /\ WF_vars(ReaderExit)
    /\ WF_vars(ReadFailsClosed)
    /\ WF_vars(PFMask)
    /\ WF_vars(PFFeed)
    /\ WF_vars(PFSave)
    /\ WF_vars(PFSchedule)

SpecLive == Init /\ [][LiveNext]_vars /\ LiveFairness

\* ------------------------------------------------------------------ claims
\* C1: chunk-boundary independence. The frames handed to
\* _process_full_frame while the stream arrived in chunks are exactly those
\* of the same stream processed as one single chunk on an empty _frame_buf.
C1_ChunkIndependence == emitted = OneShot(received)

\* A frame without text after its leading marker.
EmptyFrame(f) == f = <<>> \/ f = ESC_CLEAR

\* C2: the splitter never emits an empty frame (none without text after
\* its leading ESC[2J); a stream of exactly two consecutive markers emits
\* no frame at all.
C2_NoEmptyFrame ==
    /\ \A i \in DOMAIN emitted : ~EmptyFrame(emitted[i])
    /\ received = ESC_CLEAR \o ESC_CLEAR => emitted = <<>>

\* Number of entries of the sequence q that equal e.
Count(q, e) == Cardinality({i \in DOMAIN q : q[i] = e})

\* Number of auto-triggered saves with fingerprint f that have put both a
\* block into the text log and a row into the PASSED sheet.
AutoRecorded(f) ==
    LET blocks == Count(txt_log, Entry(f, TRUE))
        rows   == Count(xlsx.passed, Entry(f, TRUE))
    IN  IF blocks <= rows THEN blocks ELSE rows

\* C3: at most once per fingerprint per session. For every fingerprint, at
\* most one auto-triggered save appends a PASSED-sheet row and a text-log
\* block; stated for the case the claim names, in which the other
\* fingerprint has been recorded as well (F, G, F).
C3_AtMostOncePerId ==
    (\A g \in Ids : AutoRecorded(g) >= 1) => (\A f \in Ids : AutoRecorded(f) <= 1)

\* The call that returned last was an auto-triggered save of a PASSED
\* frame with a known fingerprint, and nothing has been called since.
LastWasAutoPassed ==
    /\ Quiet
    /\ last_call.pc = "done"
    /\ last_call.auto /\ ~last_call.empty
    /\ last_call.passed /\ last_call.cur_id # NoId

\* What the call that returned last was to write.
LastEntry == Entry(last_call.cur_id, last_call.auto)

\* The call that returned last left the logs and the workbook as they were.
LastWroteNothing ==
    /\ txt_log = last_call.pre.txt
    /\ xlsx = last_call.pre.xlsx
    /\ last_call.wb = NoFile

\* The workbook the call that returned last started from: the file as
\* loaded or, when there was none or it could not be read, a new one.
LastBaseOk ==
    IF last_call.pre.xlsx.exists
    THEN last_call.base \in {LoadWorkbook(last_call.pre.xlsx), FreshWb}
    ELSE last_call.base = FreshWb

\* The call that returned last passed the gate as an auto save: the
\* fingerprint is remembered, one text-log block is appended unless
\* writing the text log raised, and, when the workbook was saved, one row
\* is appended to the PASSED sheet and none to the main sheet; without a
\* saved workbook no row is added.
LastRecorded ==
    /\ last_call.target = "PASSED"
    /\ last_passed_id = last_call.cur_id
    /\ last_call.result \in {"saved", "xlsx_locked", "raised_wb", "raised_txt"}
    /\ IF last_call.result = "raised_txt"
       THEN txt_log = last_call.pre.txt
       ELSE txt_log = Append(last_call.pre.txt, LastEntry)
    /\ IF last_call.result = "saved"
       THEN /\ LastBaseOk
            /\ xlsx.passed = Append(last_call.base.passed, LastEntry)
            /\ xlsx.main = last_call.base.main
       ELSE xlsx \in {last_call.pre.xlsx, NoFile, FreshWb}

C5_RetryAfterFailure ==
    Len(auto_hist) = 2
    /\ auto_hist[1].result = "xlsx_locked"
    /\ auto_hist[2].id = auto_hist[1].id
    => auto_hist[2].result # "skip_dup"

\* C6: text log first and independent. In a call that persists, no
\* workbook operation has happened while the text-log block is not yet
\* written, the block is in the text log from then on, and it is still
\* there after the workbook failed.
C6_TxtLogFirst ==
    /\ \A t \in Threads :
          /\ sb[t].pc = "txt" => sb[t].wb = NoFile /\ xlsx = sb[t].pre.xlsx
          /\ sb[t].pc \in {"ensure", "save"} =>
                txt_log = Append(sb[t].pre.txt, Entry(sb[t].cur_id, sb[t].auto))
    /\ Quiet /\ last_call.result \in {"saved", "xlsx_locked", "raised_wb"} =>
          txt_log = Append(last_call.pre.txt, LastEntry)

\* C6 witness: the workbook could not be saved and the block of that very
\* call is the last one of the text log.
C6_Witness ==
    /\ Quiet
    /\ last_call.result = "xlsx_locked"
    /\ txt_log = Append(last_call.pre.txt, LastEntry)
    /\ xlsx = last_call.pre.xlsx

\* f begins with the marker ESC[2J.
StartsWithMarker(f) ==
    Len(f) >= Len(ESC_CLEAR) /\ SubSeq(f, 1, Len(ESC_CLEAR)) = ESC_CLEAR

\* C7: text received before the very first marker is discarded: every
\* frame handed to _process_full_frame begins with ESC[2J.
C7_FramesStartWithMarker ==
    \A i \in DOMAIN emitted : StartsWithMarker(emitted[i])

\* C8: a partially received frame is dropped when the link is lost or
\* closed: while _frame_buf still holds text received before the last
\* loss of the connection, the (single) reader hands no frame to
\* _process_full_frame.
C8_NoStaleFrame ==
    [][readers = 1 /\ stale_len > 0 => emitted' = emitted]_vars

\* The three no-op rows of the decision table, for the call that returned
\* last.
LastWasNoopRow ==
    /\ Quiet
    /\ last_call.pc = "done"
    /\ last_call.auto /\ ~last_call.empty
    /\ \/ ~last_call.passed
       \/ last_call.cur_id = NoId
       \/ last_call.cur_id = last_call.pre.last

\* C9: auto-save no-op rows change nothing. An auto save of a frame
\* without PASSED, or with PASSED and no fingerprint, or with PASSED and
\* the fingerprint equal to last_passed_id, appends no text-log block,
\* does no workbook operation and leaves last_passed_id as it was.
C9_NoopChangesNothing ==
    LastWasNoopRow =>
        /\ last_call.result \in {"skip_not_passed", "skip_no_id", "skip_dup"}
        /\ LastWroteNothing
        /\ last_passed_id = last_call.pre.last

\* C9 witness: a duplicate is skipped after something had been recorded.
C9_Witness ==
    /\ LastWasNoopRow
    /\ last_call.passed
    /\ last_call.cur_id # NoId
    /\ last_call.cur_id = last_call.pre.last
    /\ txt_log # <<>>

LastWasManual ==
    /\ Quiet
    /\ last_call.pc = "done"
    /\ ~last_call.auto /\ ~last_call.empty

\* The sheet a manual save of the last call's frame goes to.
ManualSheet == IF last_call.passed THEN "PASSED" ELSE "Sheet"

\* The last call appended exactly one text-log block.
LastAppendedBlock == txt_log = Append(last_call.pre.txt, LastEntry)

\* The last call saved the workbook with exactly one more row, in the
\* given sheet.
LastAppendedRow(sheet) ==
    /\ LastBaseOk
    /\ xlsx = AppendRow(last_call.base, sheet, LastEntry)

C12_NoRawUidFed == UidSearch(hist.fed) = NoMatch

\* C13: masking preserves width. For the UID match with span length N the
\* replacement ID:<fingerprint> takes exactly N characters: the text fed
\* to the terminal is as long as the frame, equal to it before the span,
\* starts with ID: at the span and is equal to it again after the span.
C13_MaskKeepsWidth ==
    hist.fed # <<>> =>
        LET m == UidSearch(hist.frame)
        IN  /\ Len(hist.fed) = Len(hist.frame)
            /\ m = NoMatch => hist.fed = hist.frame
            /\ m # NoMatch =>
                  /\ SubSeq(hist.fed, 1, m.start) = SubSeq(hist.frame, 1, m.start)
                  /\ SubSeq(hist.fed, m.start + 1, m.start + 3) = <<"I", "D", ":">>
                  /\ Drop(hist.fed, m.end) = Drop(hist.frame, m.end)

\* C13 witness: a span of 12 characters (SGR reset, a blank, the UID) is
\* replaced by ID:XXXX and five blanks, the line break stays where it was.
C13_Witness ==
    /\ hist.frame = SGR_RESET \o <<" ">> \o UID_A \o <<"\n">>
    /\ hist.fed = <<"I", "D", ":">> \o Hex4Chars(Crc16(UID_A))
                      \o <<" ", " ", " ", " ", " ", "\n">>

\* The fingerprint of the UID of frame f.
FingerprintOf(f) == MaskFrame(f, NoId).short

\* C14: no stale fingerprint. Once _process_full_frame has looked for the
\* UID in a frame that has none, device_short_id is None until the next
\* frame; the reader's save_block call for such a frame gets no
\* fingerprint, and a button press while such a frame is on the screen
\* gets none either, unless it is that of the frame being handled.
C14_NoStaleFingerprint ==
    /\ pf.pc \in {"feed", "save", "wait", "sched"} /\ UidSearch(pf.frame) = NoMatch
          => device_short_id = NoId
    /\ pf.pc = "idle" /\ hist.frame # <<>> /\ UidSearch(hist.frame) = NoMatch
          => device_short_id = NoId
    /\ hist.save.thread = "worker" /\ UidSearch(hist.save.shown) = NoMatch
          => hist.save.short_id = NoId
    /\ hist.save.thread = "main" /\ UidSearch(hist.save.shown) = NoMatch
          /\ hist.save.short_id # NoId
          => hist.save.short_id = FingerprintOf(hist.save.pending)

\* C14 witness: a frame with UID and PASSED has been recorded, and the
\* reader's save of the next frame, PASSED without UID, got no fingerprint.
C14_Witness ==
    /\ last_passed_id = FingerprintOf(FrameUidPassed)
    /\ last_passed_id # NoId
    /\ hist.save.thread = "worker"
    /\ hist.save.shown = FramePassed
    /\ hist.save.short_id = NoId
    /\ device_short_id = NoId

\* C15: renderer diff minimality. A render_diff pass calls itemconfig for
\* exactly the cells whose character or colour on the screen differs from
\* last_chars/last_colors, leaves every other canvas item as it was and
\* the cache equal to the screen; a pass that reads the same cells as
\* the pass before it updates nothing.
C15_RenderDiffMinimal ==
    [][rend'.tick # rend.tick =>
          /\ rend'.updates =
                 {c \in Cells :
                     <<ShownChar(GridCell(screen, c)), ShownColor(GridCell(screen, c))>>
                         # <<last_chars[c], last_colors[c]>>}
          /\ \A c \in Cells :
                 /\ last_chars'[c] = ShownChar(GridCell(screen, c))
                 /\ last_colors'[c] = ShownColor(GridCell(screen, c))
                 /\ canvas'[c] = [text |-> last_chars'[c], fill |-> last_colors'[c]]
          /\ \A c \in Cells \ rend'.updates : canvas'[c] = canvas[c]
          /\ (rend'.repeat => rend'.updates = {})]_vars

\* A second pass in a row over the same cells, one of them red and one
\* of them in the default colour, has updated nothing.
C15_Witness ==
    /\ rend.repeat
    /\ rend.updates = {}
    /\ \E c \in Cells : last_chars[c] = "A" /\ last_colors[c] = "#ff5555"
    /\ \E c \in Cells : last_chars[c] = "B" /\ last_colors[c] = DefaultColor

\* C16: a user disconnect disables auto-reconnect. From the disconnect
\* until the user invokes toggle_connect again (auto-connect stays
\* disabled exactly that long) the panel is not running, the port stays
\* closed and no reader is spawned, whatever timer ticks and pending
\* _on_port_lost callbacks run.
C16_UserDisconnectSticks ==
    [][~autoconnect_enabled' =>
          /\ ~running' /\ ~ser'
          /\ (~autoconnect_enabled => readers' <= readers)]_vars

\* The user has disconnected and an _on_port_lost callback is pending.
C16_Witness == ~autoconnect_enabled /\ ~running /\ lost_q > 0

\* C17: reconnect after connection loss. Detecting a read failure and
\* handling it (_on_port_lost) leave auto-connect as it was and end with
\* the panel not running; whenever the panel starts running the port is
\* open and one reader has been spawned; the queued _on_port_lost is
\* eventually handled, and while auto-connect is enabled a panel that is
\* not running is eventually running again with a reader.
C17_ReconnectAfterLoss ==
    /\ [][/\ (lost_q' # lost_q => autoconnect_enabled' = autoconnect_enabled)
          /\ (lost_q' < lost_q => ~running' /\ ~ser')
          /\ (~running /\ running' => ser' /\ readers' = readers + 1)]_vars
    /\ (lost_q > 0 ~> ~running)
    /\ ((~running /\ autoconnect_enabled) ~> (running /\ ser /\ readers > 0))

\* The reader of a session that has shown a frame has found the port
\* gone: _on_port_lost is queued while auto-connect is enabled.
C17_Witness ==
    /\ lost_q > 0
    /\ autoconnect_enabled
    /\ running
    /\ readers = 0
    /\ hist.nframes > 0

\* The connection state of the panel.
LinkState == <<running, autoconnect_enabled, ser, lost_q>>

\* C18: the session dedupe state survives reconnects. last_passed_id
\* changes in no step that changes the connection, only in the step in
\* which an auto-triggered save passes the gate, and that save records
\* the frame.
C18_DedupeSurvivesReconnects ==
    /\ [][last_passed_id' # last_passed_id =>
              /\ LinkState' = LinkState
              /\ sb'["worker"].auto
              /\ sb'["worker"].target = "PASSED"
              /\ sb'["worker"].cur_id = last_passed_id']_vars
    /\ [](Quiet /\ last_call.pc = "done" /\ last_call.pre.last # last_passed_id
             => last_call.result = "saved")

\* C19: applying setpoints turns the output on. When _apply_setpoints
\* has completed successfully on a connected PSU, the output of the power
\* supply is on.
C19_ApplyTurnsOutputOn ==
    psu_last = [op |-> "apply", result |-> "applied"] => dev.output

\* C21: feed and render never overlap. No PyteTerminal.feed call of the
\* reader is in progress while a render_diff pass of the main thread is.
C21_FeedRenderExclusive == ~(pf.pc = "feeding" /\ render_pos > 0)

\* C22: single-flight render request. At most one _do_render callback is
\* pending in the queue of the main thread.
C22_SingleFlight == render_q <= 1

\* C23: persistence failures never stop the reader. While the panel is
\* running a reader thread is alive, whatever error an auto-triggered save
\* has met.
C23_SaveErrorKeepsReader == running => readers > 0

\* The colour recorded for a field found on the first line, given the
\* first row of the colour matrix.
RecordedColour(row) == ExcelColorFromHex(RowHexColor(row))

\* C24: the colours of an auto-saved record belong to the saved frame.
\* While the reader is in the save_block call it made for a frame, the
\* colour recorded from the matrix it passed is the one derived from the
\* screen as the frame left it.
C24_ColoursOfSavedFrame ==
    pf.pc = "wait" =>
        RecordedColour(hist.save.colors)
            = RecordedColour([c \in Cells |-> ShownColor(GridCell(screen, c))])

\* C25: a read failure stops the reader and is reported once. The step
\* in which read_all() raises ends that reader thread, handles no text and
\* queues exactly one _on_port_lost; nothing else queues one; a queued
\* _on_port_lost, when run, sets running to false, closes the port and
\* leaves autoconnect_enabled as it was.
C25_ReadFailureReportedOnce ==
    [][/\ (readers' < readers /\ in_read' < in_read => lost_q' = lost_q + 1)
       /\ (lost_q' > lost_q =>
               /\ lost_q' = lost_q + 1
               /\ readers' = readers - 1 /\ in_read' = in_read - 1
               /\ <<frame_buf, emitted, received>>' = <<frame_buf, emitted, received>>
               /\ <<running, ser>>' = <<running, ser>>)
       /\ (lost_q' < lost_q =>
               /\ lost_q' = lost_q - 1
               /\ ~running' /\ ~ser'
               /\ autoconnect_enabled' = autoconnect_enabled
               /\ readers' = readers)]_vars

\* The only reader of a connection that has received text has met a
\* failing read and is gone; its _on_port_lost is queued, not yet run.
C25_Witness ==
    /\ lost_q = 1
    /\ readers = 0
    /\ running /\ ser
    /\ received # <<>>

\* C26: frames are split in order and verbatim. Whenever no reader holds
\* a chunk it has not handled yet, the frames emitted so far, in order,
\* followed by _frame_buf are the text received so far.
C26_SplitVerbatim ==
    pf.pc # "chunk" => Flatten(emitted) \o frame_buf = received

\* The lines of the last _parse_frame call that contain the label of
\* field k.
LabelLines(k) == {i \in DOMAIN pj.lines : Find(pj.lines[i], Rules[k].label) # -1}

\* The lines of the last _parse_frame call in which ID:XXXX is found.
IdLines == {i \in DOMAIN pj.lines : IdOnScreen(pj.lines[i]) # NoId}

\* C27: result extraction order. The ID and its colour come from the
\* first line that matches ID:XXXX; the value and the colour of each
\* labelled field both come from the last line that contains its label.
C27_ExtractionOrder ==
    pj.done =>
        /\ IdLines # {} =>
               LET i == CHOOSE x \in IdLines : \A y \in IdLines : x <= y
               IN  /\ pj.values[0] = IdOnScreen(pj.lines[i])
                   /\ pj.colors[0] = RowColour(pj.matrix, i)
        /\ \A k \in 1..11 :
               LabelLines(k) # {} =>
                   LET i == CHOOSE x \in LabelLines(k) : \A y \in LabelLines(k) : y <= x
                   IN  /\ pj.values[k] = FieldValue(k, pj.lines[i]).val
                       /\ pj.colors[k] = RowColour(pj.matrix, i)

\* C28: the keepalive worker runs only while the button is held. The
\* thread started by _plus_press ends after the matching _plus_release,
\* also when the button is pressed again right away, so at no time are two
\* threads of the button at their ser.write.
C28_OneKeepaliveWriter ==
    Cardinality({w \in PlusWorkers : plus_workers[w] = "write"}) <= 1

\* C29: at most one reader worker. In every reachable state, under any
\* interleaving of toggle_connect, _autoconnect_loop ticks, _on_port_lost
\* callbacks and worker steps, at most one thread executes _reader_loop.
C29_AtMostOneReader == readers <= 1

\* The rows of a workbook below the header rows.
DataRows(wb) ==
    Cardinality({i \in DOMAIN wb.main : wb.main[i] # Header})
        + Cardinality({i \in DOMAIN wb.passed : wb.passed[i] # Header})

\* C30: no spreadsheet row is lost. Under any interleaving of a manual
\* save with an auto-triggered save, once all save_block calls have
\* returned without an error the two sheets together hold one data row per
\* persisting call, as many as the text log has blocks.
C30_NoRowLost == Quiet => DataRows(xlsx) = Len(txt_log)

\* C20: the reader worker never touches UI widgets: nothing run on the
\* reader thread reads or changes a Tk widget or variable.
C20_WorkerNeverTouchesTk == "worker" \notin tk_touched

====
